---- MODULE Spec2Model ----
(***************************************************************************)
(* Model of rabpro/data_utils.py: the data-root global, the catalog cache  *)
(* (download_gee_metadata), the tar download/extract/flatten step          *)
(* (download_tar_file), the MERIT-Hydro tile loop (merit_hydro), the       *)
(* HydroBasins download (hydrobasins) and path resolution                  *)
(* (create_datapaths).                                                     *)
(*                                                                         *)
(* Paths, file names, HTTP bodies and JSON text are strings; the string    *)
(* operations of the code (slicing, joining, dirname, basename) are        *)
(* computed on them character by character.  The file system is a set of   *)
(* directories and a function from file paths to [content, mtime].         *)
(* environ is os.environ restricted to the two RABPRO variables; resolved  *)
(* records whether create_datapaths has been called in this process.       *)
(***************************************************************************)
EXTENDS Integers, Sequences, FiniteSets, TLC

VARIABLES DATAPATH, files, dirs, now, last, environ, resolved

vars == <<DATAPATH, files, dirs, now, last, environ, resolved>>

(***************************************************************************)
(* Bounds of the model.                                                    *)
(***************************************************************************)
\* clock ticks per day (resolution of datetime arithmetic in the model)
TicksPerDay == 2
\* the clock stops advancing here
MaxTime == 5
\* most tile downloads that fail within one merit_hydro call
MaxBad == 1

\* the number of characters iter_content hands over at a time, standing for
\* the 4 KiB chunks of the code
ChunkLen == 13

(***************************************************************************)
(* Program constants.                                                      *)
(***************************************************************************)
GEE_CACHE_DAYS == 1

CATALOG_URL == "https://raw.githubusercontent.com/jonschwenk/rabpro/main/Data/gee_datasets.json"

baseurl == "http://hydro.iis.u-tokyo.ac.jp/~yamadai/MERIT_Hydro/"

\* merit_hydro_paths; "" stands for a key that is not in the dict
merit_hydro_paths(prefix) ==
    IF prefix = "elv" THEN "DEM/MERIT_ELEV_HP"
    ELSE IF prefix = "dir" THEN "DEM/MERIT_FDR"
    ELSE IF prefix = "upa" THEN "DEM/MERIT_UDA"
    ELSE IF prefix = "wth" THEN "DEM/MERIT_WTH"
    ELSE ""

\* _PATH_CONSTANTS
PATH_CONSTANTS(key) ==
    IF key = "HydroBasins1" THEN "HydroBasins/level_one"
    ELSE IF key = "HydroBasins12" THEN "HydroBasins/level_twelve"
    ELSE IF key = "DEM_fdr" THEN "DEM/MERIT_FDR/MERIT_FDR.vrt"
    ELSE IF key = "DEM_uda" THEN "DEM/MERIT_UDA/MERIT_UDA.vrt"
    ELSE IF key = "DEM_elev_hp" THEN "DEM/MERIT_ELEV_HP/MERIT_ELEV_HP.vrt"
    ELSE "DEM/MERIT_WTH/MERIT_WTH.vrt"

\* the keys of _PATH_CONSTANTS
PathKeys == {"HydroBasins1", "HydroBasins12", "DEM_fdr", "DEM_uda", "DEM_elev_hp", "DEM_width"}

\* the keys of _HYDROBASINS_IDS in the order of the dict
HydroExts == <<"dbf", "prj", "qpj", "shp", "shx">>

\* _HYDROBASINS_IDS
HYDROBASINS_IDS(ext) ==
    IF ext = "dbf" THEN "1duRlrrHTciKn7gM4qogumZ4OhqrB0Ggq"
    ELSE IF ext = "prj" THEN "1fSAUKiFbfYb8-rLqiG1Epo3dMNLBOMHh"
    ELSE IF ext = "qpj" THEN "1ZMCrzYUJuxORxNwkQjL1qvFHODS64WBu"
    ELSE IF ext = "shp" THEN "1ev5Md5d2RwzpTRfpJ6SmCkYPf_7821b2"
    ELSE "15-fa27DPnioY9kDzgKHQdaSxingSGhCJ"

filebase == "hybas_all_lev01_v1c."

urlbase == "https://drive.google.com/uc?export=download&id="

\* appdirs.user_data_dir("rabpro", "rabpro"), the import-time value of _DATAPATH
user_data_dir == "/home/u/.local/share/rabpro"

\* appdirs.user_config_dir("rabpro", "rabpro")
user_config_dir == "/home/u/.config/rabpro"

\* an optional value: a string, or Python's None
Opt(s) == [none |-> FALSE, s |-> s]

None == [none |-> TRUE, s |-> ""]

(***************************************************************************)
(* String helpers: Python slicing and os.path on strings.                  *)
(***************************************************************************)
CharAt(s, i) == SubSeq(s, i, i)

Min(a, b) == IF a <= b THEN a ELSE b

\* s.startswith(lit, i - 1)
StartsAt(s, i, lit) == i + Len(lit) - 1 <= Len(s) /\ SubSeq(s, i, i + Len(lit) - 1) = lit

\* s[n:]
SliceFrom(s, n) == SubSeq(s, n + 1, Len(s))

\* s[:n] for n >= 0, s[:-k] for n = -k
SliceTo(s, n) == IF n >= 0 THEN SubSeq(s, 1, IF n < Len(s) THEN n ELSE Len(s))
                 ELSE SubSeq(s, 1, Len(s) + n)

\* index of the last "/" in s, 0 when there is none
RECURSIVE rfindSep(_, _)
rfindSep(s, i) == IF i = 0 THEN 0
                  ELSE IF CharAt(s, i) = "/" THEN i
                  ELSE rfindSep(s, i - 1)

\* os.path.dirname
dirname(p) == LET i == rfindSep(p, Len(p))
              IN IF i = 0 THEN "" ELSE IF i = 1 THEN "/" ELSE SubSeq(p, 1, i - 1)

\* os.path.basename
basename(p) == SubSeq(p, rfindSep(p, Len(p)) + 1, Len(p))

\* os.path.join(a, b) / Path.__truediv__ for a relative b
join(a, b) == a \o "/" \o b

(***************************************************************************)
(* File system.                                                            *)
(***************************************************************************)
isfile(fs, p) == p \in DOMAIN fs.files

isdir(fs, p) == p \in fs.dirs

\* all ancestors of p, p included, down to the root "/"
RECURSIVE Ancestors(_)
Ancestors(p) == IF p = "/" \/ p = "" THEN {}
                ELSE {p} \cup Ancestors(dirname(p))

\* os.makedirs(p, exist_ok=True); ok = FALSE when a component is a regular file
makedirs(fs, p) ==
    IF \E a \in Ancestors(p) : isfile(fs, a)
    THEN [ok |-> FALSE, fs |-> fs]
    ELSE [ok |-> TRUE, fs |-> [fs EXCEPT !.dirs = @ \cup Ancestors(p)]]

\* open(p, "w") can succeed: the parent is a directory and p is not one
CanOpenW(fs, p) == isdir(fs, dirname(p)) /\ ~isdir(fs, p)

\* open(p, "w"); write(content); close()
WriteFile(fs, p, content, t) ==
    [fs EXCEPT !.files = [q \in DOMAIN @ \cup {p} |->
                             IF q = p THEN [content |-> content, mtime |-> t] ELSE @[q]]]

\* os.remove(p)
RemoveFile(fs, p) ==
    [fs EXCEPT !.files = [q \in DOMAIN @ \ {p} |-> @[q]]]

\* os.listdir(d): names of the entries directly under d
listdir(fs, d) ==
    {basename(q) : q \in {q \in (DOMAIN fs.files) \cup fs.dirs : dirname(q) = d}}

(***************************************************************************)
(* JSON.  A value is [t, n, s, items] with t in null, bool, int, str, arr, *)
(* obj: n holds an int (or 0/1 for a bool), s a string, items the [k, v]   *)
(* pairs of an object in insertion order, as in a Python dict, or the      *)
(* elements of an array (k = "").                                          *)
(***************************************************************************)
JNull == [t |-> "null", n |-> 0, s |-> "", items |-> <<>>]

JBool(b) == [t |-> "bool", n |-> IF b THEN 1 ELSE 0, s |-> "", items |-> <<>>]

JInt(n) == [t |-> "int", n |-> n, s |-> "", items |-> <<>>]

JStr(s) == [t |-> "str", n |-> 0, s |-> s, items |-> <<>>]

JArr(items) == [t |-> "arr", n |-> 0, s |-> "", items |-> items]

JObj(pairs) == [t |-> "obj", n |-> 0, s |-> "", items |-> pairs]

Digits == "0123456789"

IsDigit(c) == \E d \in 1..10 : CharAt(Digits, d) = c

DigitVal(c) == (CHOOSE d \in 1..10 : CharAt(Digits, d) = c) - 1

IsWs(c) == c \in {" ", "\n", "\t", "\r"}

\* the parser's failure result
JFail == [ok |-> FALSE, v |-> JNull, i |-> 0]

JOk(v, i) == [ok |-> TRUE, v |-> v, i |-> i]

RECURSIVE skipWs(_, _)
skipWs(s, i) == IF i <= Len(s) /\ IsWs(CharAt(s, i)) THEN skipWs(s, i + 1) ELSE i

\* dict insertion: a repeated key keeps its place and takes the new value
RECURSIVE dictSet(_, _, _)
dictSet(pairs, k, v) ==
    IF pairs = <<>> THEN <<[k |-> k, v |-> v]>>
    ELSE IF Head(pairs).k = k THEN <<[k |-> k, v |-> v]>> \o Tail(pairs)
    ELSE <<Head(pairs)>> \o dictSet(Tail(pairs), k, v)

\* body of a string literal from position i (after the opening quote)
RECURSIVE scanString(_, _, _)
scanString(s, i, acc) ==
    IF i > Len(s) THEN JFail
    ELSE LET c == CharAt(s, i) IN
         IF c = "\"" THEN JOk(JStr(acc), i + 1)
         ELSE IF c = "\\" THEN
              IF i + 1 > Len(s) THEN JFail
              ELSE LET e == CharAt(s, i + 1) IN
                   IF e = "\"" THEN scanString(s, i + 2, acc \o "\"")
                   ELSE IF e = "\\" THEN scanString(s, i + 2, acc \o "\\")
                   ELSE IF e = "/" THEN scanString(s, i + 2, acc \o "/")
                   ELSE IF e = "n" THEN scanString(s, i + 2, acc \o "\n")
                   ELSE IF e = "t" THEN scanString(s, i + 2, acc \o "\t")
                   ELSE IF e = "r" THEN scanString(s, i + 2, acc \o "\r")
                   ELSE JFail
         ELSE IF c \in {"\n", "\t", "\r"} THEN JFail
         ELSE scanString(s, i + 1, acc \o c)

\* digits of an integer from position i
RECURSIVE scanDigits(_, _, _)
scanDigits(s, i, acc) ==
    IF i <= Len(s) /\ IsDigit(CharAt(s, i))
    THEN scanDigits(s, i + 1, acc * 10 + DigitVal(CharAt(s, i)))
    ELSE [n |-> acc, i |-> i]

scanInt(s, i) ==
    IF i > Len(s) \/ ~IsDigit(CharAt(s, i)) THEN JFail
    ELSE IF CharAt(s, i) = "0" THEN JOk(JInt(0), i + 1)
    ELSE LET r == scanDigits(s, i, 0) IN JOk(JInt(r.n), r.i)

RECURSIVE parseValue(_, _)
RECURSIVE parseArrayItems(_, _, _)
RECURSIVE parseObjectItems(_, _, _)

\* json.decoder scan_once at position i
parseValue(s, i) ==
    IF i > Len(s) THEN JFail
    ELSE LET c == CharAt(s, i) IN
         IF c = "\"" THEN scanString(s, i + 1, "")
         ELSE IF c = "{" THEN
              LET j == skipWs(s, i + 1) IN
              IF j <= Len(s) /\ CharAt(s, j) = "}" THEN JOk(JObj(<<>>), j + 1)
              ELSE parseObjectItems(s, j, <<>>)
         ELSE IF c = "[" THEN
              LET j == skipWs(s, i + 1) IN
              IF j <= Len(s) /\ CharAt(s, j) = "]" THEN JOk(JArr(<<>>), j + 1)
              ELSE parseArrayItems(s, j, <<>>)
         ELSE IF StartsAt(s, i, "null") THEN JOk(JNull, i + 4)
         ELSE IF StartsAt(s, i, "true") THEN JOk(JBool(TRUE), i + 4)
         ELSE IF StartsAt(s, i, "false") THEN JOk(JBool(FALSE), i + 5)
         ELSE IF c = "-" THEN
              LET r == scanInt(s, i + 1) IN
              IF r.ok THEN JOk(JInt(0 - r.v.n), r.i) ELSE JFail
         ELSE scanInt(s, i)

\* the items of an array, i at the first character of an item
parseArrayItems(s, i, acc) ==
    LET r == parseValue(s, i) IN
    IF ~r.ok THEN JFail
    ELSE LET j == skipWs(s, r.i) IN
         IF j > Len(s) THEN JFail
         ELSE IF CharAt(s, j) = "]" THEN JOk(JArr(Append(acc, [k |-> "", v |-> r.v])), j + 1)
         ELSE IF CharAt(s, j) = ","
              THEN parseArrayItems(s, skipWs(s, j + 1), Append(acc, [k |-> "", v |-> r.v]))
         ELSE JFail

\* the pairs of an object, i at the opening quote of a key
parseObjectItems(s, i, acc) ==
    IF i > Len(s) \/ CharAt(s, i) # "\"" THEN JFail
    ELSE LET k == scanString(s, i + 1, "") IN
         IF ~k.ok THEN JFail
         ELSE LET c == skipWs(s, k.i) IN
              IF c > Len(s) \/ CharAt(s, c) # ":" THEN JFail
              ELSE LET r == parseValue(s, skipWs(s, c + 1)) IN
                   IF ~r.ok THEN JFail
                   ELSE LET j == skipWs(s, r.i)
                            acc2 == dictSet(acc, k.v.s, r.v)
                        IN IF j > Len(s) THEN JFail
                           ELSE IF CharAt(s, j) = "}" THEN JOk(JObj(acc2), j + 1)
                           ELSE IF CharAt(s, j) = "," THEN parseObjectItems(s, skipWs(s, j + 1), acc2)
                           ELSE JFail

\* json.loads / response.json(): ok = FALSE stands for JSONDecodeError
loads(s) ==
    LET r == parseValue(s, skipWs(s, 1)) IN
    IF ~r.ok THEN JFail
    ELSE IF skipWs(s, r.i) <= Len(s) THEN JFail
    ELSE r

RECURSIVE IntToStr(_)
IntToStr(n) == IF n < 0 THEN "-" \o IntToStr(0 - n)
               ELSE IF n < 10 THEN CharAt(Digits, n + 1)
               ELSE IntToStr(n \div 10) \o CharAt(Digits, (n % 10) + 1)

\* json.encoder string escaping (ASCII input)
RECURSIVE escape(_)
escape(s) ==
    IF s = "" THEN ""
    ELSE LET c == Head(s) IN
         (IF c = "\"" THEN "\\\""
          ELSE IF c = "\\" THEN "\\\\"
          ELSE IF c = "\n" THEN "\\n"
          ELSE IF c = "\t" THEN "\\t"
          ELSE IF c = "\r" THEN "\\r"
          ELSE c) \o escape(Tail(s))

RECURSIVE spaces(_)
spaces(n) == IF n = 0 THEN "" ELSE " " \o spaces(n - 1)

RECURSIVE dumps(_, _, _)
RECURSIVE dumpItems(_, _, _, _)

\* the items of a list or dict at the given nesting level, one per line
dumpItems(items, isObj, indent, level) ==
    LET h == Head(items)
        one == spaces(indent * level)
               \o (IF isObj THEN "\"" \o escape(h.k) \o "\": " \o dumps(h.v, indent, level)
                   ELSE dumps(h.v, indent, level))
    IN IF Len(items) = 1 THEN one
       ELSE one \o ",\n" \o dumpItems(Tail(items), isObj, indent, level)

\* json.dumps(v, indent=indent) at nesting level
dumps(v, indent, level) ==
    IF v.t = "null" THEN "null"
    ELSE IF v.t = "bool" THEN (IF v.n = 1 THEN "true" ELSE "false")
    ELSE IF v.t = "int" THEN IntToStr(v.n)
    ELSE IF v.t = "str" THEN "\"" \o escape(v.s) \o "\""
    ELSE IF v.t = "arr" THEN
         IF v.items = <<>> THEN "[]"
         ELSE "[\n" \o dumpItems(v.items, FALSE, indent, level + 1)
              \o "\n" \o spaces(indent * level) \o "]"
    ELSE IF v.items = <<>> THEN "{}"
         ELSE "{\n" \o dumpItems(v.items, TRUE, indent, level + 1)
              \o "\n" \o spaces(indent * level) \o "}"


(***************************************************************************)
(* HTTP.  A response is [conn, status, body]; conn = FALSE stands for      *)
(* requests.get raising a ConnectionError.                                 *)
(***************************************************************************)
ConnectionError == [conn |-> FALSE, status |-> 0, body |-> ""]

Response(status, body) == [conn |-> TRUE, status |-> status, body |-> body]

\* catalog bodies: a 2-key object, an empty object, escapes and a repeated
\* key, and two bodies that are not JSON
CatalogBodies ==
    { "{\"a\": 1, \"b\": [true, null]}",
      "{}",
      "{\"k\":{\"n\":\"x\\\"y\"},\"k\":-12}\n",
      "<html>",
      "{\"a\": 1," }

CatalogResponses ==
    {ConnectionError}
    \cup {Response(200, b) : b \in CatalogBodies}
    \cup {Response(404, "<html>"), Response(500, "{}")}

(***************************************************************************)
(* Result of running a piece of code: the file system it leaves, the       *)
(* requests it issued, what it printed, and the exception it raised        *)
(* ("" when it completed normally).                                        *)
(***************************************************************************)
Done(fs, reqs, printed) ==
    [fs |-> fs, reqs |-> reqs, printed |-> printed, exc |-> "", calls |-> <<>>]

Raise(fs, reqs, printed, exc) ==
    [fs |-> fs, reqs |-> reqs, printed |-> printed, exc |-> exc, calls |-> <<>>]

(***************************************************************************)
(* download_gee_metadata                                                   *)
(***************************************************************************)
\* the staleness test with >= in place of >
IsStale_AtTTL(fs, path, t) ==
    ~isfile(fs, path) \/ (t - fs.files[path].mtime) >= GEE_CACHE_DAYS * TicksPerDay

\* not gee_metadata_path.is_file() or delta > timedelta(days=_GEE_CACHE_DAYS)
IsStale(fs, path, t) ==
    ~isfile(fs, path) \/ (t - fs.files[path].mtime) > GEE_CACHE_DAYS * TicksPerDay

\* the else branch opening the cache file before reporting
CatalogStatusError_Truncating(fs, path, reqs, status, t) ==
    Done(IF CanOpenW(fs, path) THEN WriteFile(fs, path, "", t) ELSE fs, reqs,
         <<CATALOG_URL \o " returned error status code " \o IntToStr(status)
           \o ". Download manually into " \o path>>)

\* else: print(f"{CATALOG_URL} returned error status code ...")
CatalogStatusError(fs, path, reqs, status, t) ==
    Done(fs, reqs,
         <<CATALOG_URL \o " returned error status code " \o IntToStr(status)
           \o ". Download manually into " \o path>>)

\* r = response.json(); with open(path, "w") as f: json.dump(r, f, indent=4)
CatalogStore(fs, path, reqs, body, t) ==
    LET r == loads(body) IN
    IF ~r.ok THEN Raise(fs, reqs, <<>>, "JSONDecodeError")
    ELSE IF ~isdir(fs, dirname(path)) THEN Raise(fs, reqs, <<>>, "FileNotFoundError")
    ELSE IF isdir(fs, path) THEN Raise(fs, reqs, <<>>, "IsADirectoryError")
    ELSE Done(WriteFile(fs, path, dumps(r.v, 4, 0), t), reqs, <<>>)

\* the body of the try block
CatalogFetch(fs, path, resp, t) ==
    LET reqs == <<CATALOG_URL>> IN
    IF ~resp.conn THEN Raise(fs, reqs, <<>>, "ConnectionError")
    ELSE IF resp.status = 200 THEN CatalogStore(fs, path, reqs, resp.body, t)
    ELSE CatalogStatusError(fs, path, reqs, resp.status, t)

\* a try block without its handler
CatchException_Missing(r) == r

\* except Exception as e: print(e)
CatchException(r) ==
    IF r.exc = "" THEN r
    ELSE Done(r.fs, r.reqs, Append(r.printed, r.exc))

download_gee_metadata(fs, datapath, resp, t) ==
    LET gee_metadata_path == join(datapath, "gee_datasets.json") IN
    IF IsStale(fs, gee_metadata_path, t)
    THEN CatchException(CatalogFetch(fs, gee_metadata_path, resp, t))
    ELSE Done(fs, <<>>, <<>>)


(***************************************************************************)
(* Tar archives.  The bytes of an archive are the string                   *)
(* "name=data;name=data;..." with one "name=data;" per regular-file        *)
(* member, name being the member's path inside the archive.                *)
(***************************************************************************)
\* index of the first c in s at or after i, 0 when there is none
RECURSIVE find(_, _, _)
find(s, c, i) == IF i > Len(s) THEN 0
                 ELSE IF CharAt(s, i) = c THEN i
                 ELSE find(s, c, i + 1)

\* the members readable from position i on; complete = FALSE when the bytes
\* stop being an archive before their end
RECURSIVE tarScan(_, _, _)
tarScan(s, i, acc) ==
    IF i > Len(s) THEN [members |-> acc, complete |-> TRUE]
    ELSE LET e == find(s, "=", i)
             z == IF e = 0 THEN 0 ELSE find(s, ";", e + 1)
         IN IF e = 0 \/ e = i \/ z = 0 \/ find(s, ";", i) < e
            THEN [members |-> acc, complete |-> FALSE]
            ELSE tarScan(s, z + 1,
                         Append(acc, [name |-> SubSeq(s, i, e - 1),
                                      data |-> SubSeq(s, e + 1, z - 1)]))

\* tarfile.open(filename) succeeds: the file starts with a member header
tarOpens(s) == s # "" /\ (tarScan(s, 1, <<>>).members # <<>>)

\* TarFile.extract of one regular-file member below directory d
RECURSIVE extractMembers(_, _, _)
extractMembers(fs, d, members) ==
    IF members = <<>> THEN fs
    ELSE LET m == Head(members)
             target == join(d, m.name)
             made == makedirs(fs, dirname(target)).fs
         IN extractMembers(WriteFile(made, target, m.data, 0), d, Tail(members))

\* the cleanup test reading "if clean:"
CleanupWanted_AsDocumented(clean) == clean

\* line 158: if not clean:
CleanupWanted(clean) == ~clean

\* shutil.move of the regular files named in names from directory src up to dst
RECURSIVE moveAll(_, _, _, _)
moveAll(fs, src, dst, names) ==
    IF names = {} THEN fs
    ELSE LET f == CHOOSE n \in names : TRUE
             from == join(src, f)
             to == join(dst, f)
             moved == RemoveFile(WriteFile(fs, to, fs.files[from].content,
                                           fs.files[from].mtime), from)
         IN moveAll(moved, src, dst, names \ {f})

\* os.rmdir(d)
rmdir(fs, d) == [fs EXCEPT !.dirs = @ \ {d}]

\* lines 149-160: extract the archive at filename, flatten, remove artifacts
ExtractAndFlatten(fs, filename, clean, reqs, printed) ==
    LET bytes == fs.files[filename].content
        tar == tarScan(bytes, 1, <<>>)
        parent == dirname(filename)
        extracted == extractMembers(fs, parent, tar.members)
        tar_dir == SliceTo(filename, -4)
    IN IF ~tarOpens(bytes) THEN Raise(fs, reqs, printed, "ReadError")
       ELSE IF ~tar.complete THEN Raise(extracted, reqs, printed, "ReadError")
       ELSE IF ~isdir(extracted, tar_dir) THEN Raise(extracted, reqs, printed, "FileNotFoundError")
       ELSE LET flat == moveAll(extracted, tar_dir, dirname(tar_dir),
                                listdir(extracted, tar_dir))
            IN IF CleanupWanted(clean)
               THEN Done(RemoveFile(rmdir(flat, tar_dir), filename), reqs, printed)
               ELSE Done(flat, reqs, printed)

\* the skip test left out
SkipExisting_Never(fs, filename, clean) == FALSE

\* lines 124-126: if not clean: if os.path.isfile(filename): return
SkipExisting(fs, filename, clean) == ~clean /\ isfile(fs, filename)

\* the destination opened before the status is looked at
StatusFailure_AfterOpen(fs, url, filename, status, reqs, printed, t) ==
    Done(IF CanOpenW(fs, filename) THEN WriteFile(fs, filename, "", t) ELSE fs, reqs,
         Append(printed, url \o " failed with status code " \o IntToStr(status)))

\* lines 137-139: print(f"{url} failed with status code ..."); return
StatusFailure(fs, url, filename, status, reqs, printed, t) ==
    Done(fs, reqs, Append(printed, url \o " failed with status code " \o IntToStr(status)))

download_tar_file(fs, url, filename, clean, resp, t) ==
    IF SkipExisting(fs, filename, clean) THEN Done(fs, <<>>, <<>>)
    ELSE LET printed == <<"Downloading '" \o url \o "' into '" \o filename \o "'">>
             reqs == <<url>>
         IN IF ~resp.conn THEN Raise(fs, reqs, printed, "ConnectionError")
            ELSE IF resp.status # 200
                 THEN StatusFailure(fs, url, filename, resp.status, reqs, printed, t)
            ELSE IF ~isdir(fs, dirname(filename))
                 THEN Raise(fs, reqs, printed, "FileNotFoundError")
            ELSE IF isdir(fs, filename) THEN Raise(fs, reqs, printed, "IsADirectoryError")
            ELSE ExtractAndFlatten(WriteFile(fs, filename, resp.body, t),
                                   filename, clean, reqs, printed)

\* the number of chunks iter_content yields for a body
chunkCount(body) == (Len(body) + ChunkLen - 1) \div ChunkLen

\* lines 141-145 interrupted: the file was opened for writing and n chunks
\* reached it before the process died
download_tar_file_killed(fs, filename, resp, n, t) ==
    WriteFile(fs, filename, SliceTo(resp.body, Min(n * ChunkLen, Len(resp.body))), t)

(***************************************************************************)
(* merit_hydro.  The listing page is the sequence of its anchor elements,  *)
(* [text, hasHref, href]; the target pattern is a literal substring.       *)
(***************************************************************************)
\* re.search(target, text) for a pattern without metacharacters
RECURSIVE searchFrom(_, _, _)
searchFrom(target, text, i) ==
    IF i + Len(target) - 1 > Len(text) THEN FALSE
    ELSE IF StartsAt(text, i, target) THEN TRUE
    ELSE searchFrom(target, text, i + 1)

\* [x["href"][2:] for x in soup.findAll("a", text=re.compile(target), href=True)]
RECURSIVE matchedUrls(_, _)
matchedUrls(anchors, target) ==
    IF anchors = <<>> THEN <<>>
    ELSE LET x == Head(anchors)
             rest == matchedUrls(Tail(anchors), target)
         IN IF x.hasHref /\ searchFrom(target, x.text, 1)
            THEN <<SliceFrom(x.href, 2)>> \o rest
            ELSE rest

\* the prefix test accepting every file name
KnownPrefix_Any(filename) == TRUE

\* line 114: filename[:3] in merit_hydro_paths
KnownPrefix(filename) == merit_hydro_paths(SliceTo(filename, 3)) # ""

\* the loop left at the first download that reports a failing status
KeepGoing_StopOnFailure(r) == r.exc = "" /\ Len(r.printed) < 2

\* the loop goes on to the next url unless download_tar_file raised
KeepGoing(r) == r.exc = ""

\* one record per download_tar_file call made by the loop
TarCall(url, filename, r) ==
    [url |-> url, filename |-> filename, reqs |-> r.reqs, exc |-> r.exc,
     printed |-> r.printed]

\* lines 110-120: the loop over the matched urls, from the accumulated result
RECURSIVE tileLoop(_, _, _, _, _, _)
tileLoop(acc, datapath, urls, clean, net, t) ==
    IF urls = <<>> THEN acc
    ELSE LET url == baseurl \o Head(urls)
             name == basename(url)
         IN IF ~KnownPrefix(name)
            THEN tileLoop(acc, datapath, Tail(urls), clean, net, t)
            ELSE LET filename == join(join(datapath, merit_hydro_paths(SliceTo(name, 3))), name)
                     made == makedirs(acc.fs, dirname(filename))
                     r == download_tar_file(made.fs, url, filename, clean, net[url], t)
                     acc2 == [fs |-> r.fs, reqs |-> acc.reqs \o r.reqs,
                              printed |-> acc.printed \o r.printed, exc |-> r.exc,
                              calls |-> Append(acc.calls, TarCall(url, filename, r))]
                 IN IF ~made.ok
                    THEN [acc EXCEPT !.exc = "FileExistsError"]
                    ELSE IF KeepGoing(r)
                    THEN tileLoop(acc2, datapath, Tail(urls), clean, net, t)
                    ELSE acc2

\* the emptiness test left out
NoMatch_Never(urls) == FALSE

\* line 107: len(urls) == 0
NoMatch(urls) == Len(urls) = 0

merit_hydro(fs, datapath, target, clean, page, net, t) ==
    LET reqs == <<baseurl>>
        urls == matchedUrls(page, target)
    IN IF NoMatch(urls) THEN Raise(fs, reqs, <<>>, "ValueError")
       ELSE tileLoop(Done(fs, reqs, <<>>), datapath, urls, clean, net, t)


(***************************************************************************)
(* hydrobasins                                                             *)
(***************************************************************************)
\* the existence test taken whatever clean is
BasinSkip_IgnoringClean(fs, filename, clean) == isfile(fs, filename)

\* lines 183-185: if not clean: if os.path.isfile(filename): return
BasinSkip(fs, filename, clean) == ~clean /\ isfile(fs, filename)

\* the status test left out
BasinRefused_Never(resp) == FALSE

\* line 196: r.status_code != 200
BasinRefused(resp) == resp.status # 200

\* lines 179-206: the loop over the extensions, from the accumulated result
RECURSIVE basinLoop(_, _, _, _, _, _)
basinLoop(acc, pathbase, exts, clean, net, t) ==
    IF exts = <<>> THEN acc
    ELSE LET ext == Head(exts)
             filename == join(pathbase, filebase \o ext)
             url == urlbase \o HYDROBASINS_IDS(ext)
             printed == Append(acc.printed,
                               "Downloading '" \o url \o "' into '" \o filename \o "'")
             reqs == Append(acc.reqs, url)
         IN IF BasinSkip(acc.fs, filename, clean) THEN acc
            ELSE IF ~net[url].conn
                 THEN Raise(acc.fs, reqs, printed, "ConnectionError")
            ELSE IF BasinRefused(net[url])
                 THEN Done(acc.fs, reqs,
                           Append(printed, url \o " failed with status code "
                                           \o IntToStr(net[url].status)))
            ELSE IF isdir(acc.fs, filename)
                 THEN Raise(acc.fs, reqs, printed, "IsADirectoryError")
            ELSE basinLoop(Done(WriteFile(acc.fs, filename, net[url].body, t), reqs, printed),
                           pathbase, Tail(exts), clean, net, t)

hydrobasins(fs, datapath, clean, net, t) ==
    LET pathbase == join(datapath, PATH_CONSTANTS("HydroBasins1"))
        made == makedirs(fs, pathbase)
    IN IF ~made.ok THEN Raise(fs, <<>>, <<>>, "FileExistsError")
       ELSE basinLoop(Done(made.fs, <<>>, <<>>), pathbase, HydroExts, clean, net, t)


(***************************************************************************)
(* create_datapaths                                                        *)
(***************************************************************************)
\* the text with runs of "/" collapsed, as pathlib parses it
RECURSIVE collapse(_, _)
collapse(s, prevSep) ==
    IF s = "" THEN ""
    ELSE IF CharAt(s, 1) = "/" /\ prevSep THEN collapse(SliceFrom(s, 1), TRUE)
    ELSE CharAt(s, 1) \o collapse(SliceFrom(s, 1), CharAt(s, 1) = "/")

\* str(Path(s)) for an absolute posix path: repeated and trailing separators
\* are dropped
Path(s) ==
    LET c == collapse(s, FALSE)
    IN IF Len(c) > 1 /\ CharAt(c, Len(c)) = "/" THEN SliceTo(c, Len(c) - 1) ELSE c

\* the keys of the returned dict
TableKeys == PathKeys \cup {"gee_metadata", "user_gee_metadata"}

\* no dict returned
NoTable == [k \in TableKeys |-> None]

\* the environment consulted before the argument
DataRoot_EnvFirst(datapath, env) ==
    IF ~env.RABPRO_DATA.none THEN Path(env.RABPRO_DATA.s)
    ELSE IF ~datapath.none THEN datapath.s
    ELSE Path(user_data_dir)

\* lines 46-50: the argument, else RABPRO_DATA, else the platform directory
DataRoot(datapath, env) ==
    IF ~datapath.none THEN datapath.s
    ELSE IF ~env.RABPRO_DATA.none THEN Path(env.RABPRO_DATA.s)
    ELSE Path(user_data_dir)

\* lines 54-58: the argument, else RABPRO_CONFIG, else the platform directory
ConfigRoot(configpath, env) ==
    IF ~configpath.none THEN configpath.s
    ELSE IF ~env.RABPRO_CONFIG.none THEN Path(env.RABPRO_CONFIG.s)
    ELSE Path(user_config_dir)

\* the entry set whatever is on disk
UserCatalogEntry_Always(fs, path) == Opt(path)

\* lines 66-68: the path when is_file(), else None
UserCatalogEntry(fs, path) == IF isfile(fs, path) THEN Opt(path) ELSE None

\* the global replaced only by a call that names a data path
NewSharedRoot_OnlyWhenGiven(old, datapath, data) == IF datapath.none THEN old ELSE data

\* line 52: _DATAPATH = datapath, whichever way datapath was chosen
NewSharedRoot(old, datapath, data) == data

\* the operations resolving the root from the environment themselves
SharedRoot_FromEnv(shared, env) ==
    IF ~env.RABPRO_DATA.none THEN Path(env.RABPRO_DATA.s) ELSE shared

\* lines 74, 117, 175: the operations read the module global _DATAPATH
SharedRoot(shared, env) == shared

\* the new value of _DATAPATH and the returned dict
create_datapaths(fs, shared, env, datapath, configpath) ==
    LET data == DataRoot(datapath, env)
        config == ConfigRoot(configpath, env)
    IN [root |-> NewSharedRoot(shared, datapath, data),
        ret |-> [k \in TableKeys |->
                    IF k \in PathKeys THEN Opt(join(data, Path(PATH_CONSTANTS(k))))
                    ELSE IF k = "gee_metadata" THEN Opt(join(data, "gee_datasets.json"))
                    ELSE UserCatalogEntry(fs, join(config, "user_gee_datasets.json"))]]

(***************************************************************************)
(* State machine.                                                          *)
(***************************************************************************)
FS == [files |-> files, dirs |-> dirs]

\* the record kept of the last call: its name, its arguments with the
\* responses the network gave, the file system and time it started from, the
\* requests issued, the output, the nested download calls and how it ended
Call(op, args, r) ==
    [op |-> op, args |-> args, pre |-> FS, t |-> now,
     reqs |-> r.reqs, printed |-> r.printed, calls |-> r.calls,
     result |-> IF r.exc = "" THEN "returned" ELSE "raised", exc |-> r.exc,
     ret |-> IF "ret" \in DOMAIN r THEN r.ret ELSE NoTable, env |-> environ]

NoCall == [op |-> "none", args |-> <<>>, pre |-> [files |-> <<>>, dirs |-> {}], t |-> 0,
           reqs |-> <<>>, printed |-> <<>>, calls |-> <<>>,
           result |-> "returned", exc |-> "", ret |-> NoTable,
           env |-> [RABPRO_DATA |-> None, RABPRO_CONFIG |-> None]]

\* a process started without the RABPRO variables on a fresh machine, on one
\* whose data root exists, or on one that also has the flow-direction
\* product directory
Init ==
    /\ DATAPATH = user_data_dir
    /\ files = <<>>
    /\ dirs \in {{}, Ancestors(user_data_dir),
                 Ancestors(join(user_data_dir, merit_hydro_paths("dir")))}
    /\ now = 0
    /\ last = NoCall
    /\ environ = [RABPRO_DATA |-> None, RABPRO_CONFIG |-> None]
    /\ resolved = FALSE

\* the wall clock advances
Tick ==
    /\ now < MaxTime
    /\ now' = now + 1
    /\ UNCHANGED <<DATAPATH, files, dirs, last, environ, resolved>>

DownloadGeeMetadataFrom(responses) ==
    \E resp \in responses :
      \E r \in {download_gee_metadata(FS, SharedRoot(DATAPATH, environ), resp, now)} :
        /\ files' = r.fs.files
        /\ dirs' = r.fs.dirs
        /\ last' = Call("download_gee_metadata", [resp |-> resp], r)
        /\ UNCHANGED <<DATAPATH, now, environ, resolved>>

DownloadGeeMetadata == DownloadGeeMetadataFrom(CatalogResponses)

NextCatalog == Tick \/ DownloadGeeMetadata

SpecCatalog == Init /\ [][NextCatalog]_vars

(***************************************************************************)
(* Inputs of the download operations.                                      *)
(***************************************************************************)
Anchor(name) == [text |-> name, hasHref |-> TRUE, href |-> "./" \o name]

\* the tile server's listing: five archives and a heading without a link
Page ==
    << Anchor("elv_tile.tar"), Anchor("dir_tile.tar"), Anchor("xyz_tile.tar"),
       Anchor("upa_cell.tar"), Anchor("wth_cell.tar"),
       [text |-> "more cells soon", hasHref |-> FALSE, href |-> ""] >>

PageUrls == {baseurl \o SliceFrom(Page[i].href, 2) : i \in {j \in 1..Len(Page) : Page[j].hasHref}}

Targets == {"tile", "cell", "soon", "n99"}

\* a well-formed archive for the file name: one top-level directory named
\* after the archive, holding a and b
GoodTar(name) ==
    LET d == SliceTo(name, -4) IN d \o "/a=1;" \o d \o "/b=2;"

\* what the tile server may answer for an archive
TarResponses(name) ==
    { Response(200, GoodTar(name)),
      Response(200, SliceTo(name, -4) \o "/a=9;"),
      Response(200, "other/a=1;"),
      Response(200, "<html>"),
      Response(404, "<html>"),
      ConnectionError }

\* the tile server during one merit_hydro call: every archive is served,
\* except those in bad, which get the failure response
Net(bad, failure) ==
    [u \in PageUrls |-> IF u \in bad THEN failure ELSE Response(200, GoodTar(basename(u)))]

TileFailures == {Response(404, "<html>"), ConnectionError}

\* the urls a call with this target will ask the tile server for
Wanted(target) ==
    LET urls == matchedUrls(Page, target) IN
    {baseurl \o urls[i] : i \in {j \in 1..Len(urls) : KnownPrefix(basename(urls[j]))}}

\* the tile servers a call with this target can tell apart
NetsUpTo(target, maxBad) ==
    {Net(bad, failure) : bad \in {b \in SUBSET Wanted(target) : Cardinality(b) <= maxBad},
                         failure \in TileFailures}

Nets(target) == NetsUpTo(target, MaxBad)

\* the archive download_tar_file is called on directly
DirectName == "dir_tile.tar"

DirectUrl == baseurl \o DirectName

DirectPath == join(join(DATAPATH, merit_hydro_paths(SliceTo(DirectName, 3))), DirectName)

DownloadTarFile ==
    \E clean \in BOOLEAN, resp \in TarResponses(DirectName) :
        \E r \in {download_tar_file(FS, DirectUrl, DirectPath, clean, resp, now)} :
           /\ files' = r.fs.files
           /\ dirs' = r.fs.dirs
           /\ last' = Call("download_tar_file",
                           [url |-> DirectUrl, filename |-> DirectPath, clean |-> clean,
                            resp |-> resp], r)
           /\ UNCHANGED <<DATAPATH, now, environ, resolved>>

MeritHydroWith(targets, cleans, maxBad) ==
    \E target \in targets, clean \in cleans :
      \E net \in NetsUpTo(target, maxBad) :
        \E r \in {merit_hydro(FS, SharedRoot(DATAPATH, environ), target, clean, Page, net, now)} :
           /\ files' = r.fs.files
           /\ dirs' = r.fs.dirs
           /\ last' = Call("merit_hydro",
                           [target |-> target, clean |-> clean, net |-> net], r)
           /\ UNCHANGED <<DATAPATH, now, environ, resolved>>

MeritHydro == MeritHydroWith(Targets, BOOLEAN, MaxBad)

NextTar == DownloadTarFile

SpecTar == Init /\ [][NextTar]_vars

NextMerit == MeritHydro

SpecMerit == Init /\ [][NextMerit]_vars

Next == Tick \/ DownloadGeeMetadata \/ DownloadTarFile \/ MeritHydro

Spec == Init /\ [][Next]_vars

\* the process is terminated while download_tar_file streams the body; the
\* next process starts from the import-time data root
KilledDownload ==
    \E clean \in BOOLEAN, resp \in TarResponses(DirectName) :
        /\ ~SkipExisting(FS, DirectPath, clean)
        /\ resp.conn /\ resp.status = 200
        /\ isdir(FS, dirname(DirectPath)) /\ ~isdir(FS, DirectPath)
        /\ \E n \in 0..(chunkCount(resp.body) - 1) :
            \E fs \in {download_tar_file_killed(FS, DirectPath, resp, n, now)} :
               /\ files' = fs.files
               /\ dirs' = fs.dirs
               /\ last' = Call("download_tar_file_killed",
                               [url |-> DirectUrl, filename |-> DirectPath, clean |-> clean,
                                resp |-> resp],
                               Done(fs, <<DirectUrl>>, <<>>))
        /\ DATAPATH' = user_data_dir
        /\ resolved' = FALSE
        /\ UNCHANGED <<now, environ>>

NextTarCrash == DownloadTarFile \/ KilledDownload

SpecTarCrash == Init /\ [][NextTarCrash]_vars

(***************************************************************************)
(* hydrobasins as an operation of the state machine.                       *)
(***************************************************************************)
BasinUrl(i) == urlbase \o HYDROBASINS_IDS(HydroExts[i])

BasinFile(root, i) == join(join(root, PATH_CONSTANTS("HydroBasins1")), filebase \o HydroExts[i])

BasinUrls == {BasinUrl(i) : i \in 1..Len(HydroExts)}

\* the shared drive during one hydrobasins call: every file is served, except
\* those in bad, which get the failure response
BasinNet(bad, failure) ==
    [u \in BasinUrls |-> IF u \in bad THEN failure ELSE Response(200, "bytes of " \o u)]

BasinNetsUpTo(maxBad) ==
    {BasinNet(bad, failure) : bad \in {b \in SUBSET BasinUrls : Cardinality(b) <= maxBad},
                              failure \in TileFailures}

BasinNets == BasinNetsUpTo(MaxBad)

HydrobasinsWith(cleans, nets) ==
    \E clean \in cleans, net \in nets :
        \E r \in {hydrobasins(FS, SharedRoot(DATAPATH, environ), clean, net, now)} :
           /\ files' = r.fs.files
           /\ dirs' = r.fs.dirs
           /\ last' = Call("hydrobasins", [clean |-> clean, net |-> net], r)
           /\ UNCHANGED <<DATAPATH, now, environ, resolved>>

Hydrobasins == HydrobasinsWith(BOOLEAN, BasinNets)

\* between two calls the user deletes one of the downloaded component files
DeleteBasinFile ==
    \E i \in 1..Len(HydroExts) :
        /\ BasinFile(DATAPATH, i) \in DOMAIN files
        /\ files' = RemoveFile(FS, BasinFile(DATAPATH, i)).files
        /\ last' = [NoCall EXCEPT !.op = "rm", !.pre = FS]
        /\ UNCHANGED <<DATAPATH, dirs, now, environ, resolved>>

NextHydro == Hydrobasins \/ DeleteBasinFile

SpecHydro == Init /\ [][NextHydro]_vars

(***************************************************************************)
(* create_datapaths as an operation, with the environment and the user's   *)
(* catalog file changing between calls.                                    *)
(***************************************************************************)
\* Path objects a caller passes as datapath
DataArgs == {None, Opt("/mnt/rabpro")}

\* Path objects a caller passes as configpath
ConfigArgs == {None, Opt("/etc/rabpro")}

\* values given to the two variables; the data root is written with a
\* trailing separator
EnvValues(name) == IF name = "RABPRO_DATA" THEN {"/srv/rabpro/"} ELSE {"/srv/conf"}

\* the places where the user's catalog is looked for
UserCatalogs ==
    {join(c, "user_gee_datasets.json") : c \in {Path(user_config_dir), "/srv/conf", "/etc/rabpro"}}

CreateDatapaths ==
    \E datapath \in DataArgs, configpath \in ConfigArgs :
        \E r \in {create_datapaths(FS, DATAPATH, environ, datapath, configpath)} :
           /\ DATAPATH' = r.root
           /\ resolved' = TRUE
           /\ last' = Call("create_datapaths",
                           [datapath |-> datapath, configpath |-> configpath, env |-> environ],
                           [Done(FS, <<>>, <<>>) EXCEPT !.calls = <<>>] @@ [ret |-> r.ret])
           /\ UNCHANGED <<files, dirs, now, environ>>

\* os.environ[name] = value, or del os.environ[name]
SetenvOf(names) ==
    \E name \in names :
        \E v \in {Opt(x) : x \in EnvValues(name)} \cup {None} :
            /\ environ[name] # v
            /\ environ' = [environ EXCEPT ![name] = v]
            /\ UNCHANGED <<DATAPATH, files, dirs, now, last, resolved>>

Setenv == SetenvOf({"RABPRO_DATA", "RABPRO_CONFIG"})

\* the user saves a catalog of their own
WriteUserCatalog ==
    \E path \in UserCatalogs :
        /\ path \notin DOMAIN files
        /\ path \notin dirs
        /\ \E made \in {makedirs(FS, dirname(path))} :
              /\ made.ok
              /\ files' = WriteFile(made.fs, path, "{}", now).files
              /\ dirs' = made.fs.dirs
        /\ last' = [NoCall EXCEPT !.op = "save", !.pre = FS]
        /\ UNCHANGED <<DATAPATH, now, environ, resolved>>

\* a directory is made where the catalog is looked for
MkdirUserCatalog ==
    \E path \in UserCatalogs :
        /\ path \notin DOMAIN files
        /\ path \notin dirs
        /\ \E made \in {makedirs(FS, path)} :
              /\ made.ok
              /\ dirs' = made.fs.dirs
        /\ last' = [NoCall EXCEPT !.op = "mkdir", !.pre = FS]
        /\ UNCHANGED <<DATAPATH, files, now, environ, resolved>>

\* the user deletes their catalog
RemoveUserCatalog ==
    \E path \in UserCatalogs :
        /\ path \in DOMAIN files
        /\ files' = RemoveFile(FS, path).files
        /\ last' = [NoCall EXCEPT !.op = "rm", !.pre = FS]
        /\ UNCHANGED <<DATAPATH, dirs, now, environ, resolved>>

NextPaths ==
    \/ CreateDatapaths
    \/ Setenv
    \/ WriteUserCatalog
    \/ MkdirUserCatalog
    \/ RemoveUserCatalog

SpecPaths == Init /\ [][NextPaths]_vars

(***************************************************************************)
(* Resolution interleaved with the operations that use the shared root:    *)
(* each operation is served without failures, so that what differs from    *)
(* run to run is only where the files go.                                  *)
(***************************************************************************)
SetDataEnv == SetenvOf({"RABPRO_DATA"})

RefreshCatalog == DownloadGeeMetadataFrom({Response(200, "{}")})

FetchBasins == HydrobasinsWith({TRUE}, BasinNetsUpTo(0))

FetchTiles == MeritHydroWith({"dir"}, {FALSE}, 0)

NextRoots ==
    \/ CreateDatapaths
    \/ SetDataEnv
    \/ RefreshCatalog
    \/ FetchBasins
    \/ FetchTiles

SpecRoots == Init /\ [][NextRoots]_vars

(***************************************************************************)
(* Properties.  last describes the most recent call: last.pre and last.t   *)
(* are the file system and the time it started from, FS is what it left.   *)
(***************************************************************************)
GeePath == join(DATAPATH, "gee_datasets.json")

GeeCall == last.op = "download_gee_metadata"

\* the cache file was absent, or older than the TTL, when the call started
StaleBefore ==
    \/ GeePath \notin DOMAIN last.pre.files
    \/ last.t - last.pre.files[GeePath].mtime > GEE_CACHE_DAYS * TicksPerDay

\* the catalog GET was answered with a status other than 200
CatalogRefused ==
    /\ GeeCall /\ StaleBefore
    /\ last.args.resp.conn /\ last.args.resp.status # 200

\* C4: download_gee_metadata issues a GET to the catalog URL exactly when the
\* cache file is absent or its age is strictly greater than the TTL of one
\* day; at an age of exactly the TTL or less it sends nothing and writes
\* nothing.
C4_FetchIffStale ==
    GeeCall =>
        /\ last.reqs = (IF StaleBefore THEN <<CATALOG_URL>> ELSE <<>>)
        /\ ~StaleBefore => FS = last.pre

C4_Witness_AgedExactlyTTL ==
    /\ GeeCall
    /\ GeePath \in DOMAIN last.pre.files
    /\ last.t - last.pre.files[GeePath].mtime = GEE_CACHE_DAYS * TicksPerDay
    /\ last.reqs = <<>>

\* C5: when the cache is stale and the catalog GET returns a status other
\* than 200, the failure is reported with the status code and the file
\* system is left as it was: an existing cache file keeps its content and
\* modification time, an absent one is not created.
C5_Non200LeavesCache ==
    CatalogRefused =>
        /\ FS = last.pre
        /\ Len(last.printed) = 1
        /\ searchFrom(IntToStr(last.args.resp.status), last.printed[1], 1)
        /\ last.result = "returned"

C5_Witness_StaleFileKept ==
    /\ CatalogRefused
    /\ GeePath \in DOMAIN last.pre.files
    /\ files[GeePath] = last.pre.files[GeePath]

\* C6: download_gee_metadata returns normally whatever happens in the
\* refresh attempt (connection failure, body that is not JSON, cache file
\* that cannot be opened); no exception leaves it.
C6_RefreshNeverRaises ==
    GeeCall => last.result = "returned" /\ last.exc = ""

C6_Witness_CaughtFailures ==
    /\ GeeCall
    /\ last.printed = <<"JSONDecodeError">>

\* C7: when the cache file is absent or stale and the catalog GET returns 200
\* with a JSON body J, then after the call the cache file exists and parsing
\* its content yields exactly J.
C7_StoredCatalogParsesBack ==
    ( /\ GeeCall /\ StaleBefore
      /\ last.args.resp.conn /\ last.args.resp.status = 200
      /\ loads(last.args.resp.body).ok )
    => /\ GeePath \in DOMAIN files
       /\ loads(files[GeePath].content).ok
       /\ loads(files[GeePath].content).v = loads(last.args.resp.body).v

TarCallDirect == last.op = "download_tar_file"

\* foo/ for the archive foo.tar
TarDir == SliceTo(DirectPath, -4)

\* the direct call downloaded the archive holding a and b and returned
TarSucceeded ==
    /\ TarCallDirect
    /\ last.reqs # <<>>
    /\ last.args.resp = Response(200, GoodTar(DirectName))
    /\ last.result = "returned"

\* every entry of the archive's directory is directly in the parent
Flattened ==
    /\ join(dirname(DirectPath), "a") \in DOMAIN files
    /\ join(dirname(DirectPath), "b") \in DOMAIN files
    /\ files[join(dirname(DirectPath), "a")].content = "1"
    /\ files[join(dirname(DirectPath), "b")].content = "2"

\* C1: after a successful download_tar_file with clean=True of foo.tar whose
\* directory foo/ holds a and b, the parent directory holds a and b, and
\* neither foo.tar nor foo/ exists.
C1_CleanRemovesArtifacts ==
    (TarSucceeded /\ last.args.clean)
    => /\ Flattened
       /\ DirectPath \notin DOMAIN files
       /\ TarDir \notin dirs

\* C2: after a successful download_tar_file with clean=False the entries are
\* flattened into the parent directory, and foo/ and foo.tar are both still
\* on disk.
C2_NoCleanKeepsArtifacts ==
    (TarSucceeded /\ ~last.args.clean)
    => /\ Flattened
       /\ DirectPath \in DOMAIN files
       /\ TarDir \in dirs

\* C8: download_tar_file called with clean=False on a destination that
\* already exists returns without a request and without creating, changing,
\* extracting or deleting anything.
C8_SkipTouchesNothing ==
    (TarCallDirect /\ ~last.args.clean /\ DirectPath \in DOMAIN last.pre.files)
    => /\ last.reqs = <<>>
       /\ FS = last.pre
       /\ last.result = "returned"

C8_Witness_Skipped ==
    /\ TarCallDirect /\ ~last.args.clean
    /\ DirectPath \in DOMAIN last.pre.files
    /\ last.args.resp.conn /\ last.args.resp.status = 200

\* the GET of the direct call was answered with a status other than 200
TarRefused ==
    /\ TarCallDirect
    /\ last.reqs # <<>>
    /\ last.args.resp.conn /\ last.args.resp.status # 200

\* C9: when the GET of download_tar_file returns a status other than 200, the
\* destination is neither created nor modified, nothing is extracted, and the
\* call returns after reporting the status code.
C9_Non200LeavesDestination ==
    TarRefused =>
        /\ FS = last.pre
        /\ last.result = "returned"
        /\ Len(last.printed) = 2
        /\ searchFrom("failed with status code " \o IntToStr(last.args.resp.status),
                      last.printed[2], 1)

C9_Witness_ExistingKept ==
    /\ TarRefused
    /\ DirectPath \in DOMAIN last.pre.files
    /\ files[DirectPath] = last.pre.files[DirectPath]

MeritCall == last.op = "merit_hydro"

\* the call at position i of the loop got a status other than 200
TileRefused(i) ==
    /\ last.calls[i].reqs # <<>>
    /\ last.args.net[last.calls[i].url].conn
    /\ last.args.net[last.calls[i].url].status # 200

\* C3 as stated: once a tile download fails with a non-200 status, no
\* request is issued for any later matched tile of that merit_hydro call.
C3_HaltsOnFirstFailure ==
    MeritCall =>
        \A i \in 1..Len(last.calls) :
            TileRefused(i) => \A j \in (i + 1)..Len(last.calls) : last.calls[j].reqs = <<>>

\* the file names merit_hydro matched, in listing order
RECURSIVE MatchedNames(_, _)
MatchedNames(anchors, target) ==
    IF anchors = <<>> THEN <<>>
    ELSE LET rest == MatchedNames(Tail(anchors), target) IN
         IF Head(anchors).hasHref /\ searchFrom(target, Head(anchors).text, 1)
         THEN <<basename(Head(anchors).href)>> \o rest
         ELSE rest

\* the product directory of the four fixed prefixes
ExpectedDir(name) ==
    CASE SubSeq(name, 1, 3) = "elv" -> "DEM/MERIT_ELEV_HP"
      [] SubSeq(name, 1, 3) = "dir" -> "DEM/MERIT_FDR"
      [] SubSeq(name, 1, 3) = "upa" -> "DEM/MERIT_UDA"
      [] SubSeq(name, 1, 3) = "wth" -> "DEM/MERIT_WTH"
      [] OTHER -> "none"

\* the download each recognised name of the sequence calls for, in order
RECURSIVE ExpectedDownloads(_)
ExpectedDownloads(names) ==
    IF names = <<>> THEN <<>>
    ELSE LET n == Head(names)
             rest == ExpectedDownloads(Tail(names))
         IN IF ExpectedDir(n) = "none" THEN rest
            ELSE <<[url |-> baseurl \o n,
                    filename |-> DATAPATH \o "/" \o ExpectedDir(n) \o "/" \o n]>> \o rest

\* the downloads the last merit_hydro call attempted, in order
Attempted == [i \in 1..Len(last.calls) |->
                 [url |-> last.calls[i].url, filename |-> last.calls[i].filename]]

\* C3 amended: a tile download that fails with a non-200 status does not end
\* the loop; download_tar_file is still called for the next matched tile with
\* a recognised prefix, and sends its request unless clean=False and that
\* archive is already on disk.
C3_ContinuesAfterFailure ==
    MeritCall =>
        LET want == ExpectedDownloads(MatchedNames(Page, last.args.target)) IN
        \A i \in 1..Len(last.calls) :
            (TileRefused(i) /\ i < Len(want)) =>
                /\ Len(last.calls) > i
                /\ last.calls[i + 1].url = want[i + 1].url
                /\ \/ last.calls[i + 1].reqs = <<want[i + 1].url>>
                   \/ /\ ~last.args.clean
                      /\ want[i + 1].filename \in DOMAIN last.pre.files

C3_Witness_RequestAfterFailure ==
    /\ MeritCall
    /\ Len(last.calls) >= 2
    /\ TileRefused(1)
    /\ last.calls[2].reqs = <<last.calls[2].url>>

\* C10: merit_hydro attempts a download for a matched file name exactly when
\* its first three characters are elv, dir, upa or wth, with the destination
\* being that name under the prefix's product directory below the data root;
\* a name with another prefix causes no request, no directory and no error.
\* The attempts follow listing order and stop early only when a download
\* itself raises (here: the connection to the tile server fails).  For the listing elv_tile.tar, dir_tile.tar, xyz_tile.tar a call
\* that returns has attempted exactly two downloads.
C10_ClassifiedByPrefix ==
    (MeritCall /\ last.exc # "ValueError") =>
        LET want == ExpectedDownloads(MatchedNames(Page, last.args.target)) IN
        /\ Len(Attempted) <= Len(want)
        /\ Attempted = SubSeq(want, 1, Len(Attempted))
        /\ last.result = "returned" => Attempted = want
        /\ last.result = "raised" =>
               /\ Attempted # <<>>
               /\ last.calls[Len(last.calls)].exc = last.exc
               /\ last.exc = "ConnectionError"
        /\ \A i \in 1..Len(last.reqs) :
               last.reqs[i] = baseurl \/ \E k \in 1..Len(want) : last.reqs[i] = want[k].url
        /\ \A d \in dirs \ last.pre.dirs :
               \E k \in 1..Len(want) :
                   d \in Ancestors(dirname(want[k].filename))
                         \cup {SliceTo(want[k].filename, -4)}
        /\ (last.args.target = "tile" /\ last.result = "returned") => Len(last.calls) = 2

C10_Witness_TwoOfThree ==
    /\ MeritCall
    /\ last.args.target = "tile"
    /\ MatchedNames(Page, "tile") = <<"elv_tile.tar", "dir_tile.tar", "xyz_tile.tar">>
    /\ last.result = "returned"
    /\ Len(last.calls) = 2
    /\ last.calls[1].filename = user_data_dir \o "/DEM/MERIT_ELEV_HP/elv_tile.tar"

\* C11: when no anchor with an href matches the tile pattern, merit_hydro
\* raises ValueError; only the listing page has been requested by then, no
\* tile download was attempted and no directory or file was created.
C11_NoMatchFailsFast ==
    (MeritCall /\ MatchedNames(Page, last.args.target) = <<>>)
    => /\ last.result = "raised"
       /\ last.exc = "ValueError"
       /\ last.reqs = <<baseurl>>
       /\ last.calls = <<>>
       /\ FS = last.pre

\* the pattern matches the text of an anchor, but that anchor has no href
C11_Witness_OnlyLinklessMatch ==
    /\ MeritCall
    /\ last.args.target = "soon"
    /\ \E i \in 1..Len(Page) : searchFrom("soon", Page[i].text, 1) /\ ~Page[i].hasHref
    /\ last.exc = "ValueError"

HydroCall == last.op = "hydrobasins"

\* the position of the first extension whose file was there before the call,
\* one past the last extension when there is none
FirstExisting ==
    CHOOSE k \in 1..(Len(HydroExts) + 1) :
        /\ \A j \in 1..(k - 1) : BasinFile(DATAPATH, j) \notin DOMAIN last.pre.files
        /\ k <= Len(HydroExts) => BasinFile(DATAPATH, k) \in DOMAIN last.pre.files

\* the position of the first extension the drive does not serve in this call
FirstBad ==
    CHOOSE k \in 1..(Len(HydroExts) + 1) :
        /\ \A j \in 1..(k - 1) : last.args.net[BasinUrl(j)].status = 200
        /\ k <= Len(HydroExts) => last.args.net[BasinUrl(k)].status # 200

\* the first n urls in the fixed order
FirstUrls(n) == [i \in 1..n |-> BasinUrl(i)]

\* the path holds what it held before the call, or is absent as before
Untouched(path) ==
    /\ (path \in DOMAIN files) = (path \in DOMAIN last.pre.files)
    /\ path \in DOMAIN files => files[path] = last.pre.files[path]

\* the path holds the body the drive served for extension i
Downloaded(i) ==
    /\ BasinFile(DATAPATH, i) \in DOMAIN files
    /\ files[BasinFile(DATAPATH, i)].content = last.args.net[BasinUrl(i)].body

\* C12: hydrobasins goes through dbf, prj, qpj, shp, shx in that order.  With
\* clean=False it returns on reaching the first extension whose file already
\* exists: the requests are exactly those of the extensions before it, which
\* are downloaded, and that extension and all later ones are left as they
\* were, absent ones included.  With clean=True existing files change nothing:
\* every extension up to the first one the drive refuses is requested.
C12_ShortCircuit ==
    HydroCall =>
        /\ ~last.args.clean =>
              last.reqs = FirstUrls(Min(FirstExisting - 1, FirstBad))
        /\ (~last.args.clean /\ FirstExisting <= FirstBad) =>
              /\ last.result = "returned"
              /\ \A i \in 1..(FirstExisting - 1) : Downloaded(i)
              /\ \A i \in FirstExisting..Len(HydroExts) : Untouched(BasinFile(DATAPATH, i))
        /\ last.args.clean =>
              last.reqs = FirstUrls(Min(Len(HydroExts), FirstBad))

\* qpj was there, dbf, prj and shp were not: dbf and prj are fetched, shp is not
C12_Witness_StoppedAtThird ==
    /\ HydroCall
    /\ ~last.args.clean
    /\ FirstExisting = 3
    /\ FirstBad > 3
    /\ BasinFile(DATAPATH, 4) \notin DOMAIN last.pre.files
    /\ BasinFile(DATAPATH, 4) \notin DOMAIN files
    /\ Len(last.reqs) = 2

\* C13: when the GET for one of the five files answers with a status other
\* than 200, hydrobasins prints the failure and returns: the urls up to the
\* failing one were requested once each and none after it, the failing file
\* and the later ones are as they were before the call, and the files
\* downloaded before the failure hold what was downloaded.
C13_HaltsWithoutRollback ==
    (/\ HydroCall
     /\ FirstBad <= Len(HydroExts)
     /\ last.args.net[BasinUrl(FirstBad)].conn
     /\ last.args.clean \/ FirstBad < FirstExisting)
    => /\ last.result = "returned"
       /\ last.reqs = FirstUrls(FirstBad)
       /\ last.printed[Len(last.printed)] =
             BasinUrl(FirstBad) \o " failed with status code "
             \o IntToStr(last.args.net[BasinUrl(FirstBad)].status)
       /\ \A i \in 1..(FirstBad - 1) : Downloaded(i)
       /\ \A i \in FirstBad..Len(HydroExts) : Untouched(BasinFile(DATAPATH, i))

\* the third file is refused while an older copy of it is on disk; the first
\* two were absent and are there afterwards
C13_Witness_ThirdRefused ==
    /\ HydroCall
    /\ last.args.clean
    /\ FirstBad = 3
    /\ last.args.net[BasinUrl(3)].conn
    /\ BasinFile(DATAPATH, 1) \notin DOMAIN last.pre.files
    /\ BasinFile(DATAPATH, 3) \in DOMAIN last.pre.files
    /\ BasinFile(DATAPATH, 1) \in DOMAIN files
    /\ Len(last.reqs) = 3

CreateCall == last.op = "create_datapaths"

\* the data root the claim names for the arguments and environment of the call
ChosenDataRoot ==
    IF ~last.args.datapath.none THEN last.args.datapath.s
    ELSE IF ~last.args.env.RABPRO_DATA.none THEN Path(last.args.env.RABPRO_DATA.s)
    ELSE user_data_dir

\* the config root the claim names for the arguments and environment of the call
ChosenConfigRoot ==
    IF ~last.args.configpath.none THEN last.args.configpath.s
    ELSE IF ~last.args.env.RABPRO_CONFIG.none THEN Path(last.args.env.RABPRO_CONFIG.s)
    ELSE user_config_dir

\* the fixed relative subpath of each data-derived entry
Subpath ==
    [HydroBasins1 |-> "HydroBasins/level_one",
     HydroBasins12 |-> "HydroBasins/level_twelve",
     DEM_fdr |-> "DEM/MERIT_FDR/MERIT_FDR.vrt",
     DEM_uda |-> "DEM/MERIT_UDA/MERIT_UDA.vrt",
     DEM_elev_hp |-> "DEM/MERIT_ELEV_HP/MERIT_ELEV_HP.vrt",
     DEM_width |-> "DEM/MERIT_WTH/MERIT_WTH.vrt",
     gee_metadata |-> "gee_datasets.json"]

\* C14: create_datapaths takes the data root from the datapath argument, else
\* from RABPRO_DATA, else the platform user-data directory, and the config
\* root likewise from configpath, RABPRO_CONFIG, the platform directory; each
\* of the seven data-derived entries of the returned table is that data root
\* joined with its fixed subpath, so the entries are a function of the
\* arguments and the environment alone.
C14_PrecedenceAndJoin ==
    CreateCall =>
        /\ \A k \in DOMAIN Subpath :
              last.ret[k] = Opt(ChosenDataRoot \o "/" \o Subpath[k])
        /\ last.ret["user_gee_metadata"] \in
              {None, Opt(ChosenConfigRoot \o "/user_gee_datasets.json")}

\* both the argument and the variable are given: the argument wins
C14_Witness_ArgumentOverEnv ==
    /\ CreateCall
    /\ last.args.datapath = Opt("/mnt/rabpro")
    /\ ~last.args.env.RABPRO_DATA.none
    /\ last.ret["DEM_fdr"] = Opt("/mnt/rabpro/DEM/MERIT_FDR/MERIT_FDR.vrt")
    /\ last.args.configpath.none
    /\ last.ret["user_gee_metadata"] = Opt("/srv/conf/user_gee_datasets.json")

\* C15: the user_gee_metadata entry is configRoot/user_gee_datasets.json
\* exactly when a regular file is at that path when create_datapaths runs, and
\* None otherwise; every other entry is what it would be on an empty disk.
C15_UserCatalogIffFile ==
    CreateCall =>
        /\ last.ret["user_gee_metadata"] =
              IF ChosenConfigRoot \o "/user_gee_datasets.json" \in DOMAIN last.pre.files
              THEN Opt(ChosenConfigRoot \o "/user_gee_datasets.json")
              ELSE None
        /\ \A k \in TableKeys \ {"user_gee_metadata"} :
              last.ret[k] = create_datapaths([files |-> <<>>, dirs |-> {}], "", last.args.env,
                                             last.args.datapath, last.args.configpath).ret[k]

\* a directory, not a regular file, is at the path: the entry is None
C15_Witness_DirectoryAtPath ==
    /\ CreateCall
    /\ ChosenConfigRoot \o "/user_gee_datasets.json" \in last.pre.dirs
    /\ last.ret["user_gee_metadata"] = None
    /\ \E other \in UserCatalogs : other \in DOMAIN last.pre.files

\* the output of the last call has a line saying the file could not be opened
OpenFailed == \E i \in 1..Len(last.printed) : last.printed[i] = "FileNotFoundError"

\* the refresh got as far as opening the cache file for writing
CatalogWriteAttempted ==
    /\ GeeCall /\ StaleBefore
    /\ last.args.resp.conn /\ last.args.resp.status = 200
    /\ loads(last.args.resp.body).ok

\* C16: whenever download_gee_metadata is about to write the catalog its
\* parent directory has been created, so the write does not fail for a missing
\* directory and the file is there afterwards.
C16_CatalogParentCreated ==
    CatalogWriteAttempted =>
        /\ dirname(GeePath) \in dirs
        /\ ~OpenFailed
        /\ GeePath \in DOMAIN files

\* C16 for hydrobasins: the level-one directory exists after any call
C16_BasinParentCreated ==
    HydroCall => dirname(BasinFile(DATAPATH, 1)) \in dirs

\* C16 for merit_hydro: the product directory of every attempted download exists
C16_TileParentCreated ==
    MeritCall => \A i \in 1..Len(last.calls) : dirname(last.calls[i].filename) \in dirs

KilledCall == last.op = "download_tar_file_killed"

\* a is b cut short
ProperPrefix(a, b) == Len(a) < Len(b) /\ SubSeq(b, 1, Len(a)) = a

\* C17: a download_tar_file terminated while streaming leaves, under the
\* destination name, a file holding only a leading part of the body and
\* nothing else changed; a later call with clean=False that finds such a
\* truncated archive returns without a request and leaves the file system as
\* it was: the archive is neither completed nor extracted.
C17_TruncatedFileSkipped ==
    /\ KilledCall =>
          /\ DirectPath \in DOMAIN files
          /\ ProperPrefix(files[DirectPath].content, last.args.resp.body)
          /\ dirs = last.pre.dirs
          /\ \A p \in (DOMAIN files \cup DOMAIN last.pre.files) \ {DirectPath} :
                p \in DOMAIN files /\ p \in DOMAIN last.pre.files
                /\ files[p] = last.pre.files[p]
    /\ (/\ TarCallDirect
        /\ ~last.args.clean
        /\ DirectPath \in DOMAIN last.pre.files
        /\ ProperPrefix(last.pre.files[DirectPath].content, GoodTar(DirectName)))
       => /\ last.reqs = <<>>
          /\ last.result = "returned"
          /\ FS = last.pre

\* half of the archive was on disk: the call with clean=False left it there
C17_Witness_HalfArchiveKept ==
    /\ TarCallDirect
    /\ ~last.args.clean
    /\ DirectPath \in DOMAIN files
    /\ files[DirectPath].content # ""
    /\ ProperPrefix(files[DirectPath].content, GoodTar(DirectName))
    /\ TarDir \notin dirs
    /\ last.reqs = <<>>

\* the last call had clean=False, got the archive and extracted it to the end
KeptRunSucceeded ==
    /\ TarCallDirect
    /\ ~last.args.clean
    /\ last.reqs = <<DirectUrl>>
    /\ last.args.resp.conn /\ last.args.resp.status = 200
    /\ last.result = "returned"

\* the last call took the skip-if-exists path
Skipped == TarCallDirect /\ last.reqs = <<>>

\* C19: once a download_tar_file call with clean=False has downloaded and
\* extracted, the archive is no longer at its destination, so the same call
\* made right after it sends the request again; a call that skips found an
\* archive that was on disk before it started.
C19_SkipNeverFollowsOwnSuccess ==
    [][ /\ KeptRunSucceeded' => DirectPath \notin DOMAIN files'
        /\ (KeptRunSucceeded /\ TarCallDirect' /\ last'.args = last.args)
              => last'.reqs = <<DirectUrl>>
        /\ Skipped' => DirectPath \in DOMAIN last'.pre.files ]_vars

\* the members are there from an earlier run with clean=False, the archive is
\* not, and the call asks the server again
C19_Witness_RequestedAgain ==
    /\ KeptRunSucceeded
    /\ last.args.resp = Response(200, GoodTar(DirectName))
    /\ join(dirname(DirectPath), "a") \in DOMAIN last.pre.files
    /\ join(dirname(DirectPath), "b") \in DOMAIN last.pre.files
    /\ DirectPath \notin DOMAIN last.pre.files
    /\ TarDir \notin last.pre.dirs

\* the last call was one of the operations that use the shared data root
RootUserCall == last.op \in {"download_gee_metadata", "hydrobasins", "merit_hydro"}

\* the files the last call created, rewrote or removed
ChangedFiles ==
    {p \in DOMAIN files : p \notin DOMAIN last.pre.files \/ files[p] # last.pre.files[p]}
    \cup (DOMAIN last.pre.files \ DOMAIN files)

\* the directories the last call created or removed
ChangedDirs == (dirs \ last.pre.dirs) \cup (last.pre.dirs \ dirs)

\* p is root or lies below it
Under(root, p) == p = root \/ StartsAt(p, 1, root \o "/")

\* everything the last call changed lies below root, apart from the
\* directories leading to root that had to be made
ChangedOnlyUnder(root) ==
    /\ \A p \in ChangedFiles : Under(root, p)
    /\ \A d \in ChangedDirs : Under(root, d) \/ d \in Ancestors(root)

\* C18: after each create_datapaths call, one passing only configpath
\* included, the shared data root is the root that call chose; and what
\* download_gee_metadata, hydrobasins and merit_hydro change on disk lies
\* under the shared root of that moment, not under a root resolved earlier.
C18_RootFollowsLatestResolution ==
    /\ CreateCall => DATAPATH = ChosenDataRoot
    /\ RootUserCall => ChangedOnlyUnder(DATAPATH)

\* a later call without datapath moved the root back from /mnt/rabpro to the
\* platform directory, and the basins then went there
C18_Witness_BackToDefault ==
    /\ last.op = "hydrobasins"
    /\ resolved
    /\ DATAPATH = user_data_dir
    /\ BasinFile("/mnt/rabpro", 1) \in DOMAIN last.pre.files
    /\ BasinFile(user_data_dir, 1) \notin DOMAIN last.pre.files
    /\ BasinFile(user_data_dir, 1) \in DOMAIN files

\* C20: an operation run before any create_datapaths call works under the
\* platform user-data directory, whether or not RABPRO_DATA is set; files
\* appear under the directory RABPRO_DATA names only once create_datapaths
\* has been called.
C20_DefaultRootBeforeResolution ==
    /\ ~resolved => DATAPATH = user_data_dir
    /\ (RootUserCall /\ ~resolved) => ChangedOnlyUnder(user_data_dir)
    /\ (RootUserCall /\ \E p \in ChangedFiles \cup ChangedDirs :
                            \E v \in EnvValues("RABPRO_DATA") : Under(Path(v), p))
          => resolved

\* RABPRO_DATA was set when hydrobasins ran in a process that had not resolved
\* its paths: the basins are under the platform directory
C20_Witness_EnvIgnored ==
    /\ last.op = "hydrobasins"
    /\ ~resolved
    /\ ~last.env.RABPRO_DATA.none
    /\ BasinFile(user_data_dir, 1) \in ChangedFiles

====
